---- MODULE Spec2Model ----
(***************************************************************************)
(* kube-oom-watcher (src/main.go, the current program: lines 200-545).     *)
(*                                                                         *)
(* Three goroutines: podIndexer keeps the uid index from a list+watch of   *)
(* pods, eventWatcher turns OOMKilling events into OOMEvent values on the  *)
(* channel eventCh, and main's loop receives them, correlates them         *)
(* (handleOOM) and posts to the webhook (postMessage).                     *)
(*                                                                         *)
(* Text (event messages, cgroup paths, uids) is a tuple of one-character   *)
(* strings, so that the two regular expressions are matched character by   *)
(* character. A uint64 is its canonical decimal digits (no leading zero),  *)
(* because 2^64 is beyond TLC's integers.                                  *)
(***************************************************************************)
EXTENDS Integers, Sequences, FiniteSets, TLC

\* ------------------------------------------------------------------ bounds

\* Longest history of pod notifications the API server emits in SpecPods.
MaxPodLog == 3
\* Longest history of pod notifications the API server emits in Spec.
MaxPodLogSmall == 2
\* Longest history of event notifications the API server emits in SpecEvents.
MaxEvLog == 3
\* Longest history of event notifications the API server emits in Spec.
MaxEvLogSmall == 1
\* Latest value of the database's current_timestamp.
MaxTime == 4
\* Capacity of eventCh in the model (make(chan OOMEvent, 128) scaled down).
ChanCap == 2
MaxUlps == 3

\* --------------------------------------------------------------- characters

\* The nil error. An error is the tuple of the parts of its text.
Nil == <<>>

Digits == {"0", "1", "2", "3", "4", "5", "6", "7", "8", "9"}

Letters ==
    {"a", "b", "c", "d", "e", "f", "g", "h", "i", "j", "k", "l", "m",
     "n", "o", "p", "q", "r", "s", "t", "u", "v", "w", "x", "y", "z",
     "A", "B", "C", "D", "E", "F", "G", "H", "I", "J", "K", "L", "M",
     "N", "O", "P", "Q", "R", "S", "T", "U", "V", "W", "X", "Y", "Z"}

\* \s of Go's regexp: [\t\n\f\r ]
Spaces == {" ", "\t", "\n", "\f", "\r"}

\* [\w\-] of cgroupRegExp
UidChars == Letters \cup Digits \cup {"_", "-"}

DigitVal(c) ==
    CASE c = "0" -> 0 [] c = "1" -> 1 [] c = "2" -> 2 [] c = "3" -> 3
      [] c = "4" -> 4 [] c = "5" -> 5 [] c = "6" -> 6 [] c = "7" -> 7
      [] c = "8" -> 8 [] c = "9" -> 9

\* Whether text s holds the literal lit at position i.
HasLit(s, i, lit) ==
    /\ i >= 1
    /\ i + Len(lit) - 1 <= Len(s)
    /\ \A k \in 1..Len(lit) : s[i + k - 1] = lit[k]

\* The end (exclusive) of the longest run of characters of S starting at i:
\* a greedy  [S]*  from i.
RunEnd(s, i, S) ==
    IF i > Len(s) THEN i
    ELSE CHOOSE j \in i..(Len(s) + 1) :
            /\ \A k \in i..(j - 1) : s[k] \in S
            /\ (j = Len(s) + 1 \/ s[j] \notin S)

\* ------------------------------------------------------------ extractPID

LitKill == <<"K", "i", "l", "l">>
LitProcess == <<"p", "r", "o", "c", "e", "s", "s">>

\* 2^64 - 1
MaxUint64 ==
    <<"1", "8", "4", "4", "6", "7", "4", "4", "0", "7",
      "3", "7", "0", "9", "5", "5", "1", "6", "1", "5">>

\* pidRegExp = Kill\s+process\s+(\d+) tried at position i: the positions
\* [from, to) of the capture group, or <<>> when there is no match at i.
PidMatchAt(s, i) ==
    IF ~HasLit(s, i, LitKill) THEN <<>>
    ELSE LET a == i + Len(LitKill)
             b == RunEnd(s, a, Spaces)
         IN  IF b = a \/ ~HasLit(s, b, LitProcess) THEN <<>>
             ELSE LET c == b + Len(LitProcess)
                      d == RunEnd(s, c, Spaces)
                      e == RunEnd(s, d, Digits)
                  IN  IF d = c \/ e = d THEN <<>> ELSE <<d, e>>

\* pidRegExp.FindStringSubmatch(message): match[1] of the leftmost match, or
\* <<>> (nil) when nothing matches. \d+ never matches the empty text.
PidSubmatch(s) ==
    LET starts == {i \in 1..Len(s) : PidMatchAt(s, i) # <<>>}
    IN  IF starts = {} THEN <<>>
        ELSE LET i == CHOOSE x \in starts : \A y \in starts : x <= y
                 m == PidMatchAt(s, i)
             IN  SubSeq(s, m[1], m[2] - 1)

\* Decimal digits without their leading zeros (at least one digit is kept).
StripZeros(d) ==
    LET k == RunEnd(d, 1, {"0"})
    IN  IF k > Len(d) THEN <<"0">> ELSE SubSeq(d, k, Len(d))

\* a <= b for two digit texts of the same length.
DigitsLeq(a, b) ==
    \/ a = b
    \/ \E i \in 1..Len(a) :
          /\ \A j \in 1..(i - 1) : a[j] = b[j]
          /\ DigitVal(a[i]) < DigitVal(b[i])

\* strconv.ParseUint(d, 10, 64) of a non-empty digit text: the value as its
\* canonical digits, or a range error when it exceeds 2^64 - 1.
ParseUint(d) ==
    LET v == StripZeros(d)
    IN  IF Len(v) < Len(MaxUint64) \/ (Len(v) = Len(MaxUint64) /\ DigitsLeq(v, MaxUint64))
        THEN [val |-> v, err |-> Nil]
        ELSE [val |-> <<"0">>, err |-> <<"strconv.ParseUint: parsing ", d, ": value out of range">>]

\* extractPID(message): (pid, error).
extractPID(message) ==
    LET match == PidSubmatch(message)
    IN  IF match = <<>>
        THEN [pid |-> <<"0">>, err |-> <<"Event message does not match: ", message>>]
        ELSE LET r == ParseUint(match)
             IN  IF r.err # Nil THEN [pid |-> <<"0">>, err |-> r.err]
                 ELSE [pid |-> r.val, err |-> Nil]

\* ------------------------------------------------------------ extractUID

LitSlashPod == <<"/", "p", "o", "d">>

\* cgroupRegExp = /pod([\w\-]+)/ tried at position i.
UidMatchAt(s, i) ==
    IF ~HasLit(s, i, LitSlashPod) THEN <<>>
    ELSE LET a == i + Len(LitSlashPod)
             e == RunEnd(s, a, UidChars)
         IN  IF e = a \/ e > Len(s) \/ s[e] # "/" THEN <<>> ELSE <<a, e>>

\* extractUID(cgroup): (uid, error); the uid of the leftmost match.
extractUID(cgroup) ==
    LET starts == {i \in 1..Len(cgroup) : UidMatchAt(cgroup, i) # <<>>}
    IN  IF starts = {} THEN [uid |-> <<>>, err |-> <<"Unknown cgroup format: ", cgroup>>]
        ELSE LET i == CHOOSE x \in starts : \A y \in starts : x <= y
                 m == UidMatchAt(cgroup, i)
             IN  [uid |-> SubSeq(cgroup, m[1], m[2] - 1), err |-> Nil]

\* ------------------------------------------------------------------ state

VARIABLES
    exit,          \* "running", or who ended the process: log.Fatalln of a watcher, or the runtime's fatal error on a racing map read
    podLog,        \* API server: every pod notification emitted so far; the resourceVersion of one is its position
    podCompacted,  \* API server: a pod watch from a resourceVersion below this one is answered Expired
    ppc,           \* podIndexer: where the goroutine is
    plist,         \* internalPodIndexer: list.Items not yet copied into index
    plistRV,       \* internalPodIndexer: list.ResourceVersion
    prv,           \* internalPodIndexer: resourceVersion
    ppos,          \* the open pod watch: position of the last notification it delivered
    pgone,         \* the open pod watch: the server answers it with an Expired error notification
    pnote,         \* internalPodIndexer: the notification whose map write is in progress
    perr,          \* history: the error podIndexer met since its last List that succeeded, and where (List, Watch, or a watch.Error notification)
    index,         \* internalPodIndexer: the local map index
    prevIndex,     \* the map of the previous internalPodIndexer call
    uidIndex,      \* the global pointer: "nil", "index" (&index of the running call) or "prev" (of the previous call)
    evLog,         \* API server: every event notification emitted so far
    evCompacted,   \* API server: an event watch from a resourceVersion below this one is answered Expired
    epc,           \* eventWatcher: where the goroutine is
    erv,           \* internalEventWatcher: resourceVersion
    epos,          \* the open event watch: position of the last notification it delivered
    egone,         \* the open event watch: the server answers it with an Expired error notification
    esend,         \* internalEventWatcher: the OOMEvent values of the current notification still to be sent
    eerr,          \* history: the error eventWatcher met since its last List that succeeded, and where
    efirstRV,      \* history: list.ResourceVersion of eventWatcher's first snapshot (-1 before it)
    sent,          \* history: for each qualifying event processed, in order, its position and the OOMEvent values sent for it
    eventCh,       \* the channel eventCh
    cpc,           \* main's loop: where it is
    oomEvent,      \* main's loop: the OOMEvent received
    rdUid,         \* handleOOM: the uid whose map read is in progress
    rdLive,        \* handleOOM: the map being read is the one podIndexer writes to
    rdView,        \* handleOOM: the values the map read in progress may return
    raced,         \* handleOOM: a map write overlapped the map read in progress
    row,           \* handleOOM: the row scanned (cgroup, nspid)
    queried,       \* history: the current_timestamp of handleOOM's query (-1: no query)
    got,           \* history: what the map read of handleOOM returned for the OOMEvent received
    herr,          \* history: the error handleOOM returned for the OOMEvent received (Nil: none)
    posts,         \* history: the webhook POSTs made for the OOMEvent received, in order
    ptimeout,      \* internalPodIndexer: timeoutSeconds of the last Watch call (0: none yet)
    etimeout       \* internalEventWatcher: timeoutSeconds of the last Watch call (0: none yet)

podVars == <<podLog, podCompacted, ppc, plist, plistRV, prv, ppos, pgone, pnote, perr, index, prevIndex, uidIndex, ptimeout>>
evVars == <<evLog, evCompacted, epc, erv, epos, egone, esend, eerr, efirstRV, sent, etimeout>>
conVars == <<cpc, oomEvent, rdUid, row, queried, got, herr, posts>>
rdVars == <<rdLive, rdView, raced>>
vars == <<exit, podVars, evVars, eventCh, conVars, rdVars>>

\* minWatchTimeout.Seconds(): 5 * time.Minute in seconds.
minWatchTimeout == 300

\* n / d rounded to the nearest integer, a tie to the even one: the rounding
\* of every float64 operation.
RoundHalfEven(n, d) ==
    LET q == n \div d
        r == n % d
    IN  IF 2 * r < d THEN q
        ELSE IF 2 * r > d THEN q + 1
        ELSE IF q % 2 = 0 THEN q ELSE q + 1

\* float64 values of [0.0, 1.0): n/8, k * 2^-53 and 1 - k * 2^-53. From 0.5
\* on the float64 values are 2^-53 apart, so 1 - 2^-53 is the largest one
\* below 1.
Eighths(n) == [of |-> "Eighths", n |-> n]
AboveZero(k) == [of |-> "AboveZero", n |-> k]
BelowOne(k) == [of |-> "BelowOne", n |-> k]

\* The values rand.Float64() may return: any float64 of [0.0, 1.0).
Floats ==
    {Eighths(n) : n \in 0..7} \cup {AboveZero(k) : k \in 1..MaxUlps}
        \cup {BelowOne(k) : k \in 1..MaxUlps}

\* The value rand.Float64() returns in Spec, SpecEvents and SpecPods: 0.5.
FloatsSmall == {Eighths(4)}

\* int64(minWatchTimeout.Seconds() * (f + 1.0)), each operation rounded as
\* float64 does. From 1 to 2 the float64 values are 2^-52 apart and from 512
\* to 1024 they are 2^-43 apart.
\*   f = n/8:           f + 1.0 and the product 300 + 37.5 * n are exact.
\*   f = k * 2^-53:     f + 1.0 is at most 1 + (k + 1) * 2^-53, and the
\*                      product stays below 301 for every k far below 2^44.
\*   f = 1 - k * 2^-53: f + 1.0 rounds to 2 - j * 2^-52; the product
\*                      600 - 300 * j * 2^-52 rounds to 600 - m * 2^-43,
\*                      which is above 599 for every m far below 2^43.
\* The conversion to int64 truncates.
timeoutSeconds(f) ==
    CASE f.of = "Eighths" ->
            (minWatchTimeout * (8 + f.n)) \div 8
      [] f.of = "AboveZero" ->
            minWatchTimeout
      [] f.of = "BelowOne" ->
            LET j == RoundHalfEven(f.n, 2)
                m == RoundHalfEven(minWatchTimeout * j, 512)
            IN  IF m = 0 THEN 2 * minWatchTimeout ELSE 2 * minWatchTimeout - 1

\* The empty map.
EmptyMap == <<>>

\* map[k] = v
MapSet(m, k, v) == [x \in (DOMAIN m) \cup {k} |-> IF x = k THEN v ELSE m[x]]

\* delete(map, k)
MapDelete(m, k) == [x \in (DOMAIN m) \ {k} |-> m[x]]

\* v, ok := map[k]
MapGet(m, k) ==
    IF k \in DOMAIN m THEN [ok |-> TRUE, v |-> m[k]]
    ELSE [ok |-> FALSE, v |-> [Name |-> "", Namespace |-> ""]]

\* apierrs.StatusError with ErrStatus.Reason == metav1.StatusReasonExpired
StatusReasonExpired == "Expired"

\* No error met since the last List that succeeded.
NoErr == [at |-> "", err |-> ""]

\* The errors a List or Watch call returns, or a watch.Error notification
\* carries: a StatusError of some reason, or an error that is no StatusError
\* (a transport error; apierrs.FromObject of an object that is no Status).
Failures == {StatusReasonExpired, "InternalError", "NotAStatusError"}

\* ---------------------------------------------------------- pod API server

U1 == <<"u", "1">>
U2 == <<"u", "2">>

Pod(uid, name, namespace) == [Kind |-> "Pod", UID |-> uid, Name |-> name, Namespace |-> namespace]

\* The pod notifications the API server may emit in Spec.
PodInputsSmall ==
    { [Type |-> "ADDED", Object |-> Pod(U1, "web-7", "prod")],
      [Type |-> "DELETED", Object |-> Pod(U1, "web-7", "prod")] }

\* The pod notifications the API server may emit in SpecPods.
PodInputs ==
    PodInputsSmall \cup
    { [Type |-> "ADDED", Object |-> Pod(U1, "web-8", "prod")],
      [Type |-> "ADDED", Object |-> Pod(U2, "db-0", "kube-system")],
      [Type |-> "MODIFIED", Object |-> Pod(U1, "web-9", "prod")],
      [Type |-> "BOOKMARK", Object |-> Pod(U2, "", "")],
      [Type |-> "ADDED", Object |-> [Kind |-> "Status"]] }

\* The uids some pod notification of the log is about.
LogUIDs(log) == {log[i].Object.UID : i \in {j \in 1..Len(log) : log[j].Object.Kind = "Pod"}}

\* Position of the last notification of one of the given types about pod uid,
\* 0 when there is none.
LastAbout(log, uid, types) ==
    LET at == {i \in 1..Len(log) :
                 /\ log[i].Object.Kind = "Pod"
                 /\ log[i].Object.UID = uid
                 /\ log[i].Type \in types}
    IN  IF at = {} THEN 0 ELSE CHOOSE i \in at : \A j \in at : j <= i

\* The pods that exist on the API server after the notifications of log.
LivePods(log) ==
    {log[i].Object : i \in
        {j \in 1..Len(log) :
            /\ log[j].Object.Kind = "Pod"
            /\ log[j].Type \in {"ADDED", "MODIFIED"}
            /\ j = LastAbout(log, log[j].Object.UID, {"ADDED", "MODIFIED", "DELETED"})}}

\* A set of pods as list.Items: in the order of their uids (U1 before U2).
RECURSIVE Items(_)
Items(pods) ==
    IF pods = {} THEN <<>>
    ELSE LET p == CHOOSE x \in pods : \A y \in pods : x.UID = U1 \/ y.UID # U1
         IN  <<p>> \o Items(pods \ {p})

\* The API server emits one more pod notification.
PodEmit(inputs, max) ==
    /\ exit = "running"
    /\ Len(podLog) < max
    /\ \E n \in inputs : podLog' = Append(podLog, n)
    /\ UNCHANGED <<exit, podCompacted, ppc, plist, plistRV, prv, ppos, pgone, pnote, perr, index, prevIndex, uidIndex, ptimeout>>
    /\ UNCHANGED <<evVars, eventCh, conVars, rdVars>>

\* The API server compacts its pod history.
PodCompact ==
    /\ exit = "running"
    /\ \E c \in (podCompacted + 1)..Len(podLog) : podCompacted' = c
    /\ UNCHANGED <<exit, podLog, ppc, plist, plistRV, prv, ppos, pgone, pnote, perr, index, prevIndex, uidIndex, ptimeout>>
    /\ UNCHANGED <<evVars, eventCh, conVars, rdVars>>

\* -------------------------------------------------------------- podIndexer

NoNote == [Type |-> "", Object |-> [Kind |-> ""]]

PodInfo(pod) == [Name |-> pod.Name, Namespace |-> pod.Namespace]

\* PodApply without its DELETED case: a removed pod stays in the map.
PodApplyNoDelete(m, n) ==
    IF n.Type = "ADDED" THEN MapSet(m, n.Object.UID, PodInfo(n.Object)) ELSE m

\* PodApply with an ADDED case that builds the map anew from the pod added:
\* the other entries are lost.
PodApplyDropsOthers(m, n) ==
    IF n.Type = "ADDED" THEN MapSet(EmptyMap, n.Object.UID, PodInfo(n.Object))
    ELSE IF n.Type = "DELETED" THEN MapDelete(m, n.Object.UID)
    ELSE m

\* The map write of internalPodIndexer for a pod notification n.
PodApply(m, n) ==
    IF n.Type = "ADDED" THEN MapSet(m, n.Object.UID, PodInfo(n.Object))
    ELSE IF n.Type = "DELETED" THEN MapDelete(m, n.Object.UID)
    ELSE m

\* podIndexer's loop on the error internalPodIndexer returned: restart on a
\* StatusError of reason Expired, log.Fatalln otherwise.
PodIndexerRestarts(err) == err = StatusReasonExpired

\* internalPodIndexer returns err to podIndexer.
PodReturn(at, err) ==
    /\ perr' = [at |-> at, err |-> err]
    /\ IF PodIndexerRestarts(err)
       THEN ppc' = "list" /\ exit' = exit
       ELSE ppc' = "exited" /\ exit' = "podIndexer"
    /\ ppos' = 0
    /\ pgone' = FALSE

\* PodList without  index := make(map):  the snapshot is copied into the map
\* of the previous call, as with one map kept for the life of the process.
PodListKeepsIndex ==
    /\ exit = "running"
    /\ ppc = "list"
    /\ plist' = Items(LivePods(podLog))
    /\ plistRV' = Len(podLog)
    /\ ppc' = "fill"
    /\ perr' = NoErr
    /\ UNCHANGED <<exit, podLog, podCompacted, prv, ppos, pgone, pnote, index, prevIndex, uidIndex, ptimeout>>
    /\ UNCHANGED <<evVars, eventCh, conVars, rdVars>>

\* PodList with  uidIndex = &index  right after make(map), before the loop
\* over list.Items.
PodListPublishesEmpty ==
    /\ exit = "running"
    /\ ppc = "list"
    /\ plist' = Items(LivePods(podLog))
    /\ plistRV' = Len(podLog)
    /\ index' = EmptyMap
    /\ prevIndex' = index
    /\ uidIndex' = "index"
    /\ rdLive' = FALSE
    /\ ppc' = "fill"
    /\ perr' = NoErr
    /\ UNCHANGED <<exit, podLog, podCompacted, prv, ppos, pgone, pnote, ptimeout>>
    /\ UNCHANGED <<evVars, eventCh, conVars, rdView, raced>>

\* Pods("").List succeeds; index := make(map).
PodList ==
    /\ exit = "running"
    /\ ppc = "list"
    /\ plist' = Items(LivePods(podLog))
    /\ plistRV' = Len(podLog)
    /\ index' = EmptyMap
    /\ prevIndex' = index
    /\ uidIndex' = IF uidIndex = "index" THEN "prev" ELSE uidIndex
    /\ rdLive' = FALSE
    /\ ppc' = "fill"
    /\ perr' = NoErr
    /\ UNCHANGED <<exit, podLog, podCompacted, prv, ppos, pgone, pnote, ptimeout>>
    /\ UNCHANGED <<evVars, eventCh, conVars, rdView, raced>>

\* Pods("").List fails: log.Fatalln, whatever the error.
PodListFails ==
    /\ exit = "running"
    /\ ppc = "list"
    /\ \E err \in Failures : perr' = [at |-> "List", err |-> err]
    /\ exit' = "podIndexer"
    /\ ppc' = "exited"
    /\ UNCHANGED <<podLog, podCompacted, plist, plistRV, prv, ppos, pgone, pnote, index, prevIndex, uidIndex, ptimeout>>
    /\ UNCHANGED <<evVars, eventCh, conVars, rdVars>>

\* One round of the loop over list.Items.
PodFill ==
    /\ exit = "running"
    /\ ppc = "fill"
    /\ plist # <<>>
    /\ index' = MapSet(index, Head(plist).UID, PodInfo(Head(plist)))
    /\ plist' = Tail(plist)
    /\ UNCHANGED <<exit, podLog, podCompacted, ppc, plistRV, prv, ppos, pgone, pnote, perr, prevIndex, uidIndex, ptimeout>>
    /\ UNCHANGED <<evVars, eventCh, conVars, rdVars>>

\* resourceVersion := list.ResourceVersion; uidIndex = &index
PodPublish ==
    /\ exit = "running"
    /\ ppc = "fill"
    /\ plist = <<>>
    /\ prv' = plistRV
    /\ uidIndex' = "index"
    /\ ppc' = "open"
    /\ UNCHANGED <<exit, podLog, podCompacted, plist, plistRV, ppos, pgone, pnote, perr, index, prevIndex, ptimeout>>
    /\ UNCHANGED <<evVars, eventCh, conVars, rdVars>>

\* Pods("").Watch from resourceVersion succeeds.
PodOpen(floats) ==
    /\ exit = "running"
    /\ ppc = "open"
    /\ \E f \in floats : ptimeout' = timeoutSeconds(f)
    /\ ppc' = "recv"
    /\ ppos' = prv
    /\ pgone' = (prv < podCompacted)
    /\ UNCHANGED <<exit, podLog, podCompacted, plist, plistRV, prv, pnote, perr, index, prevIndex, uidIndex>>
    /\ UNCHANGED <<evVars, eventCh, conVars, rdVars>>

\* Pods("").Watch fails: return err. The server answers Expired only to a
\* resourceVersion it has compacted.
PodOpenFails(floats) ==
    /\ exit = "running"
    /\ ppc = "open"
    /\ \E f \in floats : ptimeout' = timeoutSeconds(f)
    /\ \E err \in Failures :
          /\ err = StatusReasonExpired => prv < podCompacted
          /\ PodReturn("Watch", err)
    /\ UNCHANGED <<podLog, podCompacted, plist, plistRV, prv, pnote, index, prevIndex, uidIndex>>
    /\ UNCHANGED <<evVars, eventCh, conVars, rdVars>>

\* A watch.Error notification: return apierrs.FromObject(watchEvent.Object).
PodRecvError ==
    /\ exit = "running"
    /\ ppc = "recv"
    /\ \E err \in Failures :
          /\ err = StatusReasonExpired => pgone
          /\ PodReturn("notification", err)
    /\ UNCHANGED <<podLog, podCompacted, plist, plistRV, prv, pnote, index, prevIndex, uidIndex, ptimeout>>
    /\ UNCHANGED <<evVars, eventCh, conVars, rdVars>>

\* The next notification of the watch: the type assertion, resourceVersion =
\* pod.ResourceVersion, and the start of the map write of an ADDED or DELETED.
PodRecv ==
    /\ exit = "running"
    /\ ppc = "recv"
    /\ ~pgone
    /\ ppos < Len(podLog)
    /\ ppos' = ppos + 1
    /\ LET n == podLog[ppos + 1]
       IN  IF n.Object.Kind # "Pod"
           THEN UNCHANGED <<prv, ppc, pnote, raced>>
           ELSE /\ prv' = ppos + 1
                /\ IF n.Type \in {"ADDED", "DELETED"}
                   THEN /\ ppc' = "write"
                        /\ pnote' = n
                        /\ raced' = (raced \/ (cpc = "lookup" /\ rdLive))
                   ELSE UNCHANGED <<ppc, pnote, raced>>
    /\ UNCHANGED <<exit, podLog, podCompacted, plist, plistRV, pgone, perr, index, prevIndex, uidIndex, ptimeout>>
    /\ UNCHANGED <<evVars, eventCh, conVars, rdLive, rdView>>

\* The map write completes: index[pod.UID] = PodInfo{...} or delete(index, pod.UID).
PodWrite ==
    /\ exit = "running"
    /\ ppc = "write"
    /\ index' = PodApply(index, pnote)
    /\ pnote' = NoNote
    /\ ppc' = "recv"
    /\ rdView' = IF cpc = "lookup" /\ rdLive
                 THEN rdView \cup {MapGet(index', rdUid)}
                 ELSE rdView
    /\ UNCHANGED <<exit, podLog, podCompacted, plist, plistRV, prv, ppos, pgone, perr, prevIndex, uidIndex, ptimeout>>
    /\ UNCHANGED <<evVars, eventCh, conVars, rdLive, raced>>

\* PodClosed with a resourceVersion that falls back to the snapshot's: the
\* next watch starts from list.ResourceVersion again.
PodClosedRewinds ==
    /\ exit = "running"
    /\ ppc = "recv"
    /\ ppc' = "open"
    /\ prv' = plistRV
    /\ ppos' = 0
    /\ pgone' = FALSE
    /\ UNCHANGED <<exit, podLog, podCompacted, plist, plistRV, pnote, perr, index, prevIndex, uidIndex, ptimeout>>
    /\ UNCHANGED <<evVars, eventCh, conVars, rdVars>>

\* watcher.ResultChan() is closed (the watch timed out): watch again.
PodClosed ==
    /\ exit = "running"
    /\ ppc = "recv"
    /\ ppc' = "open"
    /\ ppos' = 0
    /\ pgone' = FALSE
    /\ UNCHANGED <<exit, podLog, podCompacted, plist, plistRV, prv, pnote, perr, index, prevIndex, uidIndex, ptimeout>>
    /\ UNCHANGED <<evVars, eventCh, conVars, rdVars>>

\* -------------------------------------------------------- event API server

MsgKill == <<"M","e","m","o","r","y"," ","c","g","r","o","u","p"," ","o","u","t"," ","o","f"," ","m","e","m","o","r","y",":"," ","K","i","l","l"," ","p","r","o","c","e","s","s"," ","4","8","2","1"," ","(","j","a","v","a",")">>
MsgNoMatch == <<"o","u","t"," ","o","f"," ","m","e","m","o","r","y">>
MsgHuge == <<"K","i","l","l"," ","p","r","o","c","e","s","s"," ","1","8","4","4","6","7","4","4","0","7","3","7","0","9","5","5","1","6","1","6">>

Event(reason, kind, name, message) ==
    [Kind |-> "Event", Reason |-> reason,
     InvolvedObject |-> [Kind |-> kind, Name |-> name], Message |-> message]

\* The event notifications the API server may emit in Spec.
EvInputsSmall ==
    { [Type |-> "ADDED", Object |-> Event("OOMKilling", "Node", "node-3", MsgKill)],
      [Type |-> "ADDED", Object |-> Event("OOMKilling", "Node", "node-3", MsgNoMatch)] }

\* The event notifications the API server may emit in SpecEvents.
EvInputs ==
    EvInputsSmall \cup
    { [Type |-> "ADDED", Object |-> Event("OOMKilling", "Node", "node-3", MsgHuge)],
      [Type |-> "MODIFIED", Object |-> Event("OOMKilling", "Node", "node-3", MsgKill)],
      [Type |-> "ADDED", Object |-> Event("Started", "Node", "node-3", MsgKill)],
      [Type |-> "ADDED", Object |-> Event("OOMKilling", "Pod", "web-7", MsgKill)],
      [Type |-> "ADDED", Object |-> [Kind |-> "Status"]] }

\* The API server emits one more event notification.
EvEmit(inputs, max) ==
    /\ exit = "running"
    /\ Len(evLog) < max
    /\ \E n \in inputs : evLog' = Append(evLog, n)
    /\ UNCHANGED <<exit, evCompacted, epc, erv, epos, egone, esend, eerr, efirstRV, sent, etimeout>>
    /\ UNCHANGED <<podVars, eventCh, conVars, rdVars>>

\* The API server compacts its event history.
EvCompact ==
    /\ exit = "running"
    /\ \E c \in (evCompacted + 1)..Len(evLog) : evCompacted' = c
    /\ UNCHANGED <<exit, evLog, epc, erv, epos, egone, esend, eerr, efirstRV, sent, etimeout>>
    /\ UNCHANGED <<podVars, eventCh, conVars, rdVars>>

\* ------------------------------------------------------------ eventWatcher

OOMEvent(node, pid, err) == [Node |-> node, PID |-> pid, Error |-> err]

\* Qualifies without the test of InvolvedObject.Kind.
QualifiesAnyKind(n) ==
    /\ n.Object.Kind = "Event"
    /\ n.Type = "ADDED"
    /\ n.Object.Reason = "OOMKilling"

\* The three filters of internalEventWatcher.
Qualifies(n) ==
    /\ n.Object.Kind = "Event"
    /\ n.Type = "ADDED"
    /\ n.Object.Reason = "OOMKilling"
    /\ n.Object.InvolvedObject.Kind = "Node"

\* The OOMEvent values internalEventWatcher sends for a qualifying event, in
\* order: the send under  if err != nil  is followed by the unconditional one.
Sends(event) ==
    LET node == event.InvolvedObject.Name
        r == extractPID(event.Message)
    IN  (IF r.err # Nil THEN <<OOMEvent("", <<"0">>, r.err)>> ELSE <<>>)
        \o <<OOMEvent(node, r.pid, Nil)>>

\* eventWatcher's loop without its log.Fatalln branch: it restarts on any error.
EventWatcherRestartsAlways(err) == TRUE

\* eventWatcher's loop on the error internalEventWatcher returned.
EventWatcherRestarts(err) == err = StatusReasonExpired

\* internalEventWatcher returns err to eventWatcher.
EvReturn(at, err) ==
    /\ eerr' = [at |-> at, err |-> err]
    /\ IF EventWatcherRestarts(err)
       THEN epc' = "list" /\ exit' = exit
       ELSE epc' = "exited" /\ exit' = "eventWatcher"
    /\ epos' = 0
    /\ egone' = FALSE

\* Events("").List succeeds; resourceVersion := list.ResourceVersion
EvList ==
    /\ exit = "running"
    /\ epc = "list"
    /\ erv' = Len(evLog)
    /\ efirstRV' = IF efirstRV = -1 THEN Len(evLog) ELSE efirstRV
    /\ epc' = "open"
    /\ eerr' = NoErr
    /\ UNCHANGED <<exit, evLog, evCompacted, epos, egone, esend, sent, etimeout>>
    /\ UNCHANGED <<podVars, eventCh, conVars, rdVars>>

\* Events("").List fails: return err.
EvListFails ==
    /\ exit = "running"
    /\ epc = "list"
    /\ \E err \in Failures : EvReturn("List", err)
    /\ UNCHANGED <<evLog, evCompacted, erv, esend, efirstRV, sent, etimeout>>
    /\ UNCHANGED <<podVars, eventCh, conVars, rdVars>>

\* Events("").Watch from resourceVersion succeeds.
EvOpen(floats) ==
    /\ exit = "running"
    /\ epc = "open"
    /\ \E f \in floats : etimeout' = timeoutSeconds(f)
    /\ epc' = "recv"
    /\ epos' = erv
    /\ egone' = (erv < evCompacted)
    /\ UNCHANGED <<exit, evLog, evCompacted, erv, esend, eerr, efirstRV, sent>>
    /\ UNCHANGED <<podVars, eventCh, conVars, rdVars>>

\* Events("").Watch fails: return err.
EvOpenFails(floats) ==
    /\ exit = "running"
    /\ epc = "open"
    /\ \E f \in floats : etimeout' = timeoutSeconds(f)
    /\ \E err \in Failures :
          /\ err = StatusReasonExpired => erv < evCompacted
          /\ EvReturn("Watch", err)
    /\ UNCHANGED <<evLog, evCompacted, erv, esend, efirstRV, sent>>
    /\ UNCHANGED <<podVars, eventCh, conVars, rdVars>>

\* A watch.Error notification: return apierrs.FromObject(watchEvent.Object).
EvRecvError ==
    /\ exit = "running"
    /\ epc = "recv"
    /\ \E err \in Failures :
          /\ err = StatusReasonExpired => egone
          /\ EvReturn("notification", err)
    /\ UNCHANGED <<evLog, evCompacted, erv, esend, efirstRV, sent, etimeout>>
    /\ UNCHANGED <<podVars, eventCh, conVars, rdVars>>

\* The next notification of the watch, up to the first channel send.
EvRecv ==
    /\ exit = "running"
    /\ epc = "recv"
    /\ ~egone
    /\ epos < Len(evLog)
    /\ epos' = epos + 1
    /\ LET n == evLog[epos + 1]
       IN  /\ erv' = IF n.Object.Kind = "Event" THEN epos + 1 ELSE erv
           /\ IF Qualifies(n)
              THEN /\ esend' = Sends(n.Object)
                   /\ epc' = "send"
                   /\ sent' = Append(sent, [pos |-> epos + 1, evs |-> <<>>])
              ELSE UNCHANGED <<esend, epc, sent>>
    /\ UNCHANGED <<exit, evLog, evCompacted, egone, eerr, efirstRV, etimeout>>
    /\ UNCHANGED <<podVars, eventCh, conVars, rdVars>>

\* EvSend on a channel that never blocks: when it is full the oldest OOMEvent
\* is overwritten.
EvSendOverwrites ==
    /\ exit = "running"
    /\ epc = "send"
    /\ eventCh' = Append(IF Len(eventCh) < ChanCap THEN eventCh ELSE Tail(eventCh), Head(esend))
    /\ sent' = [sent EXCEPT ![Len(sent)].evs = Append(@, Head(esend))]
    /\ esend' = Tail(esend)
    /\ epc' = IF Tail(esend) = <<>> THEN "recv" ELSE "send"
    /\ UNCHANGED <<exit, evLog, evCompacted, erv, epos, egone, eerr, efirstRV, etimeout>>
    /\ UNCHANGED <<podVars, conVars, rdVars>>

\* c <- OOMEvent{...}: blocks while the channel is full.
EvSend ==
    /\ exit = "running"
    /\ epc = "send"
    /\ Len(eventCh) < ChanCap
    /\ eventCh' = Append(eventCh, Head(esend))
    /\ sent' = [sent EXCEPT ![Len(sent)].evs = Append(@, Head(esend))]
    /\ esend' = Tail(esend)
    /\ epc' = IF Tail(esend) = <<>> THEN "recv" ELSE "send"
    /\ UNCHANGED <<exit, evLog, evCompacted, erv, epos, egone, eerr, efirstRV, etimeout>>
    /\ UNCHANGED <<podVars, conVars, rdVars>>

\* watcher.ResultChan() is closed (the watch timed out): watch again.
EvClosed ==
    /\ exit = "running"
    /\ epc = "recv"
    /\ epc' = "open"
    /\ epos' = 0
    /\ egone' = FALSE
    /\ UNCHANGED <<exit, evLog, evCompacted, erv, esend, eerr, efirstRV, sent, etimeout>>
    /\ UNCHANGED <<podVars, eventCh, conVars, rdVars>>

\* ---------------------------------------------------- process-record store

CgPodU1 == <<"/","k","u","b","e","p","o","d","s","/","b","u","r","s","t","a","b","l","e","/","p","o","d","u","1","/","c","0">>
CgPodU2 == <<"/","k","u","b","e","p","o","d","s","/","b","u","r","s","t","a","b","l","e","/","p","o","d","u","2","/","c","0">>
CgNoPod == <<"/","s","y","s","t","e","m",".","s","l","i","c","e","/","d","o","c","k","e","r",".","s","e","r","v","i","c","e">>

Pid4821 == <<"4", "8", "2", "1">>

\* The table records: process id 4821 of node-3 was a process of pod u1, then
\* one of pod u2, then one outside any pod; node-4 has a process 4821 too.
Records ==
    { [hostname |-> "node-3", pid |-> Pid4821, ts |-> 1, cgroup |-> CgPodU1, nspid |-> <<"7">>],
      [hostname |-> "node-3", pid |-> Pid4821, ts |-> 2, cgroup |-> CgPodU2, nspid |-> <<"9">>],
      [hostname |-> "node-3", pid |-> Pid4821, ts |-> 3, cgroup |-> CgNoPod, nspid |-> Pid4821],
      [hostname |-> "node-4", pid |-> Pid4821, ts |-> 0, cgroup |-> CgPodU2, nspid |-> <<"1">>] }

\* Selected without its condition on ts: every record of the node and PID.
SelectedAnyTime(node, pid, now) ==
    {r \in Records : r.hostname = node /\ r.pid = pid}

\* WHERE hostname = $1 AND pid = $2 AND ts < current_timestamp
Selected(node, pid, now) ==
    {r \in Records : r.hostname = node /\ r.pid = pid /\ r.ts < now}

\* ORDER BY ts DESC LIMIT 1: the rows of the result (none or one).
QueryRow(node, pid, now) ==
    {r \in Selected(node, pid, now) : \A q \in Selected(node, pid, now) : q.ts <= r.ts}

\* ------------------------------------------------------------ main's loop

NoRow == [cgroup |-> <<>>, nspid |-> <<"0">>]

\* No map read was made.
NotRead == [ok |-> FALSE, v |-> [Name |-> "", Namespace |-> ""]]

\* What the webhook may answer to a POST.
Replies ==
    {[transport |-> FALSE, StatusCode |-> c] : c \in {199, 200, 299, 300}}
    \cup {[transport |-> TRUE, StatusCode |-> 0]}

ReplyOK == [transport |-> FALSE, StatusCode |-> 200]

\* postMessage's error for the webhook's reply.
postMessage(reply) ==
    IF reply.transport THEN <<"transport error">>
    ELSE IF reply.StatusCode < 200 \/ reply.StatusCode > 299 THEN <<"Failed to POST">>
    ELSE Nil

\* One webhook POST: the text of its body and the error postMessage returned.
Post(text, reply) == [username |-> "OOM watcher", text |-> text, err |-> postMessage(reply)]

\* handleError(err): the POST it makes.
handleError(err, reply) == Post(<<"Error: ", err>>, reply)

\* The text of handleOOM's alert.
OOMText(pod, event, nspid) ==
    <<"OOM in pod ", pod.Namespace, "/", pod.Name, " (node: ", event.Node,
      ", PID: ", event.PID, ", NSPID: ", nspid, ")">>

\* handleOOM up to the read of the index: the query, extractUID and the nil
\* check. dbOK = FALSE is a query that fails with an error other than
\* sql.ErrNoRows.
HandleOOMHead(event, now, dbOK) ==
    LET rows == QueryRow(event.Node, event.PID, now)
    IN  IF ~dbOK THEN [err |-> <<"sql: database error">>, uid |-> <<>>, row |-> NoRow]
        ELSE IF rows = {}
        THEN [err |-> <<"No ps record for node ", event.Node, " and PID ", event.PID>>,
              uid |-> <<>>, row |-> NoRow]
        ELSE LET r == CHOOSE x \in rows : TRUE
                 u == extractUID(r.cgroup)
                 sc == [cgroup |-> r.cgroup, nspid |-> r.nspid]
             IN  IF u.err # Nil THEN [err |-> u.err, uid |-> <<>>, row |-> sc]
                 ELSE IF uidIndex = "nil"
                 THEN [err |-> <<"UID index not ready">>, uid |-> u.uid, row |-> sc]
                 ELSE [err |-> Nil, uid |-> u.uid, row |-> sc]

\* main's loop without  err = handleError(err):  the error is only logged.
AfterHandleOOMLogsOnly(made, err, reply) == made

\* main's loop on handleOOM's result: made are the POSTs handleOOM made and
\* err the error it returned;  if err != nil { err = handleError(err) }.
AfterHandleOOM(made, err, reply) ==
    IF err # Nil THEN Append(made, handleError(err, reply)) ELSE made

\* Recv from a channel that hands out its newest OOMEvent first.
RecvNewest ==
    /\ exit = "running"
    /\ cpc = "recv"
    /\ eventCh # <<>>
    /\ oomEvent' = eventCh[Len(eventCh)]
    /\ eventCh' = SubSeq(eventCh, 1, Len(eventCh) - 1)
    /\ cpc' = "handle"
    /\ posts' = <<>>
    /\ herr' = Nil
    /\ queried' = -1
    /\ row' = NoRow
    /\ got' = NotRead
    /\ UNCHANGED <<exit, podVars, evVars, rdUid, rdVars>>

\* oomEvent := <-eventCh
Recv ==
    /\ exit = "running"
    /\ cpc = "recv"
    /\ eventCh # <<>>
    /\ oomEvent' = Head(eventCh)
    /\ eventCh' = Tail(eventCh)
    /\ cpc' = "handle"
    /\ posts' = <<>>
    /\ herr' = Nil
    /\ queried' = -1
    /\ row' = NoRow
    /\ got' = NotRead
    /\ UNCHANGED <<exit, podVars, evVars, rdUid, rdVars>>

\* The body of main's loop: handleError for an error OOMEvent; else handleOOM,
\* to its end when it fails before the index, to the start of its map read
\* otherwise. The webhook's reply, the database's current_timestamp and
\* whether the query succeeds are drawn from the sets given.
Handle(replies, times, dbOKs) ==
    /\ exit = "running"
    /\ cpc = "handle"
    /\ \E reply \in replies, now \in times, dbOK \in dbOKs :
          IF oomEvent.Error # Nil
          THEN /\ posts' = <<handleError(oomEvent.Error, reply)>>
               /\ cpc' = "recv"
               /\ UNCHANGED <<herr, queried, row, rdUid, rdVars>>
          ELSE LET h == HandleOOMHead(oomEvent, now, dbOK)
               IN  /\ queried' = now
                   /\ row' = h.row
                   /\ IF h.err # Nil
                      THEN /\ herr' = h.err
                           /\ posts' = AfterHandleOOM(<<>>, h.err, reply)
                           /\ cpc' = "recv"
                           /\ UNCHANGED <<rdUid, rdVars>>
                      ELSE /\ cpc' = "lookup"
                           /\ rdUid' = h.uid
                           /\ rdLive' = (uidIndex = "index")
                           /\ rdView' = {MapGet(IF uidIndex = "index" THEN index ELSE prevIndex, h.uid)}
                           /\ raced' = (uidIndex = "index" /\ ppc = "write")
                           /\ UNCHANGED <<herr, posts>>
    /\ UNCHANGED <<exit, podVars, evVars, eventCh, oomEvent, got>>

\* pod, ok := (*uidIndex)[uid] returns, and the rest of handleOOM and of the
\* loop body.
Lookup(replies) ==
    /\ exit = "running"
    /\ cpc = "lookup"
    /\ \E res \in rdView, reply1 \in replies, reply2 \in replies :
          LET made == IF res.ok
                      THEN <<Post(OOMText(res.v, oomEvent, row.nspid), reply1)>>
                      ELSE <<>>
              err == IF res.ok THEN made[1].err
                     ELSE <<"Pod with UID ", rdUid, " is not known">>
          IN  /\ got' = res
              /\ herr' = err
              /\ posts' = AfterHandleOOM(made, err, IF res.ok THEN reply2 ELSE reply1)
    /\ cpc' = "recv"
    /\ rdUid' = <<>>
    /\ rdLive' = FALSE
    /\ rdView' = {}
    /\ raced' = FALSE
    /\ UNCHANGED <<exit, podVars, evVars, eventCh, oomEvent, row, queried>>

\* The map read runs into a concurrent map write: the Go runtime may end the
\* process (fatal error: concurrent map read and map write).
LookupRace ==
    /\ exit = "running"
    /\ cpc = "lookup"
    /\ raced
    /\ exit' = "mapRace"
    /\ UNCHANGED <<podVars, evVars, eventCh, conVars, rdVars>>

\* ---------------------------------------------------------- specifications

Init ==
    /\ exit = "running"
    /\ podLog = <<>>
    /\ podCompacted = 0
    /\ ppc = "list"
    /\ plist = <<>>
    /\ plistRV = 0
    /\ prv = 0
    /\ ppos = 0
    /\ pgone = FALSE
    /\ pnote = NoNote
    /\ perr = NoErr
    /\ eerr = NoErr
    /\ got = NotRead
    /\ index = EmptyMap
    /\ prevIndex = EmptyMap
    /\ uidIndex = "nil"
    /\ evLog = <<>>
    /\ evCompacted = 0
    /\ epc = "list"
    /\ erv = 0
    /\ epos = 0
    /\ egone = FALSE
    /\ esend = <<>>
    /\ efirstRV = -1
    /\ sent = <<>>
    /\ eventCh = <<>>
    /\ cpc = "recv"
    /\ oomEvent = OOMEvent("", <<"0">>, Nil)
    /\ rdUid = <<>>
    /\ row = NoRow
    /\ queried = -1
    /\ herr = Nil
    /\ posts = <<>>
    /\ rdLive = FALSE
    /\ rdView = {}
    /\ raced = FALSE
    /\ ptimeout = 0
    /\ etimeout = 0

PodIndexer ==
    \/ PodList \/ PodListFails \/ PodFill \/ PodPublish
    \/ PodOpen(FloatsSmall) \/ PodOpenFails(FloatsSmall)
    \/ PodRecv \/ PodRecvError \/ PodWrite \/ PodClosed

EventWatcher ==
    \/ EvList \/ EvListFails \/ EvOpen(FloatsSmall) \/ EvOpenFails(FloatsSmall)
    \/ EvRecv \/ EvRecvError \/ EvSend \/ EvClosed

\* The whole program, with few pod and event notifications.
Next ==
    \/ PodEmit(PodInputsSmall, MaxPodLogSmall) \/ PodCompact \/ PodIndexer
    \/ EvEmit(EvInputsSmall, MaxEvLogSmall) \/ EvCompact \/ EventWatcher
    \/ Recv \/ Handle(Replies, 0..MaxTime, BOOLEAN) \/ Lookup(Replies) \/ LookupRace

Spec == Init /\ [][Next]_vars

\* The whole program with main's goroutine scheduled and every query and
\* every POST returning: a step of main's loop that can be taken is taken.
SpecLive ==
    /\ Init
    /\ [][Next]_vars
    /\ WF_vars(Recv)
    /\ WF_vars(Handle(Replies, 0..MaxTime, BOOLEAN))
    /\ WF_vars(Lookup(Replies))

\* eventWatcher and main's loop while podIndexer has not run yet, with a
\* database and a webhook that answer.
NextEvents ==
    \/ EvEmit(EvInputs, MaxEvLog) \/ EvCompact \/ EventWatcher
    \/ Recv \/ Handle({ReplyOK}, {MaxTime}, {TRUE})

SpecEvents == Init /\ [][NextEvents]_vars

\* podIndexer alone.
NextPods == PodEmit(PodInputs, MaxPodLog) \/ PodCompact \/ PodIndexer

SpecPods == Init /\ [][NextPods]_vars

\* Both watchers on a quiet cluster, opening watch after watch as each one
\* times out, with every value rand.Float64() may return.
NextTimeouts ==
    \/ PodList \/ PodPublish \/ PodOpen(Floats) \/ PodClosed
    \/ EvList \/ EvOpen(Floats) \/ EvClosed

SpecTimeouts == Init /\ [][NextTimeouts]_vars

\* ------------------------------------------------------------------ claims

\* The qualifying events whose processing is complete: every send of
\* internalEventWatcher for them has been made.
Processed == {i \in 1..Len(sent) : i < Len(sent) \/ epc # "send"}

\* C1: for every qualifying event the eventWatcher has processed, exactly one
\* OOMEvent was put on eventCh: (node, pid) with a nil Error when extractPID
\* succeeds on the message, and one carrying extractPID's error otherwise.
C1_OneSignalPerEvent ==
    \A i \in Processed :
        LET event == evLog[sent[i].pos].Object
            r == extractPID(event.Message)
            evs == sent[i].evs
        IN  /\ Len(evs) = 1
            /\ r.err = Nil => evs[1] = OOMEvent(event.InvolvedObject.Name, r.pid, Nil)
            /\ r.err # Nil => evs[1].Error = r.err

\* C2: no qualifying event is dropped. Once the watcher's resourceVersion is
\* at or past the position of a qualifying event emitted after the first
\* snapshot, that event is never delivered again, so it must have been
\* processed by then: skipping one is dropping it for good.
C2_NoEventSkipped ==
    efirstRV # -1 =>
        \A p \in (efirstRV + 1)..erv :
            Qualifies(evLog[p]) => \E i \in 1..Len(sent) : sent[i].pos = p

\* The pods of the snapshot the running internalPodIndexer call listed.
SnapshotPods == LivePods(SubSeq(podLog, 1, plistRV))

\* The snapshot as a map from uid to PodInfo.
SnapshotMap ==
    [u \in {p.UID : p \in SnapshotPods} |->
        PodInfo(CHOOSE p \in SnapshotPods : p.UID = u)]

\* The notifications internalPodIndexer has taken from the watch since the
\* snapshot.
SinceSnapshot == SubSeq(podLog, plistRV + 1, prv)

\* What the claim says the index holds: the uids of the snapshot and of the
\* adds, without those whose last remove follows their last add; each with
\* the name and namespace of its last add, or of the snapshot without one.
ExpectedIndex ==
    LET added(u) == LastAbout(SinceSnapshot, u, {"ADDED"})
        removed(u) == LastAbout(SinceSnapshot, u, {"DELETED"})
        present == {u \in DOMAIN SnapshotMap \cup LogUIDs(SinceSnapshot) :
                      \/ added(u) > removed(u)
                      \/ added(u) = 0 /\ removed(u) = 0 /\ u \in DOMAIN SnapshotMap}
    IN  [u \in present |->
            IF added(u) > 0 THEN PodInfo(SinceSnapshot[added(u)].Object)
            ELSE SnapshotMap[u]]

\* C3: whenever podIndexer is between two map writes, the index is exactly the
\* snapshot's uids plus the added uids minus the removed ones, a uid added
\* after its removal being present, each with the name and namespace of its
\* latest add.
C3_IndexIsSnapshotPlusAddsMinusRemoves ==
    ppc \notin {"fill", "write"} => index = ExpectedIndex

\* C3's case: u1 is in the snapshot, is removed, and is added again under
\* another name.
C3_ReaddedAfterRemoval ==
    /\ ppc = "recv"
    /\ plistRV = 1
    /\ prv = 3
    /\ U1 \in DOMAIN SnapshotMap
    /\ podLog[2].Type = "DELETED"
    /\ podLog[3] = [Type |-> "ADDED", Object |-> Pod(U1, "web-8", "prod")]
    /\ index = (U1 :> [Name |-> "web-8", Namespace |-> "prod"])

\* A watcher returns an Expired error from its Watch call or from a
\* watch.Error notification in this step.
PodExpires == ppc \in {"open", "recv"} /\ perr' # perr /\ perr'.err = StatusReasonExpired
EvExpires == epc \in {"open", "recv"} /\ eerr' # eerr /\ eerr'.err = StatusReasonExpired

\* C4: a watch that ends with Expired does not end the process; the watcher
\* goes to List again, takes its resourceVersion from that list and opens the
\* watch from it, and the index podIndexer publishes then is exactly the new
\* snapshot.
C4_ExpiredResyncs ==
    [][ /\ PodExpires => ppc' = "list" /\ exit' = "running"
        /\ EvExpires => epc' = "list" /\ exit' = "running"
        /\ (ppc = "list" /\ ppc' # "list") => ppc' \in {"fill", "exited"}
        /\ (epc = "list" /\ epc' \notin {"list", "exited"}) => epc' = "open" /\ erv' = Len(evLog)
        /\ (ppc = "fill" /\ ppc' # "fill") =>
              /\ ppc' = "open"
              /\ prv' = plistRV
              /\ uidIndex' = "index"
              /\ index' = SnapshotMap
        /\ (ppc = "open" /\ ppc' = "recv") => ppos' = prv
        /\ (epc = "open" /\ epc' = "recv") => epos' = erv
      ]_vars

\* C4's case: podIndexer has listed a second time, which it does only after
\* an Expired error, and has published an index without u1, which the index
\* of before the resync held.
C4_ResyncedWithoutU1 ==
    /\ exit = "running"
    /\ ppc = "open"
    /\ uidIndex = "index"
    /\ U1 \in DOMAIN prevIndex
    /\ U1 \notin DOMAIN index
    /\ prv = plistRV
    /\ podCompacted > 0

OneErrorAlert(made, err) ==
    /\ Len(made) = 1
    /\ made[1].username = "OOM watcher"
    /\ made[1].text = <<"Error: ", err>>

\* C6: for a received OOMEvent without Error, when the query succeeds,
\* handleOOM goes on to read the index only if there is a row, its cgroup
\* holds /pod<uid>/ and uidIndex is set; in each other case, and when the
\* read finds no pod, exactly one error alert naming the failure is posted,
\* the process keeps running and main's loop is back at its receive.
C6_CorrelationFailureAlerts ==
    [][ /\ (cpc = "handle" /\ cpc' # "handle" /\ oomEvent.Error = Nil
              /\ herr' # <<"sql: database error">>) =>
              LET rows == QueryRow(oomEvent.Node, oomEvent.PID, queried')
                  cg == (CHOOSE r \in rows : TRUE).cgroup
                  why == IF rows = {}
                         THEN <<"No ps record for node ", oomEvent.Node, " and PID ", oomEvent.PID>>
                         ELSE IF extractUID(cg).err # Nil
                         THEN <<"Unknown cgroup format: ", cg>>
                         ELSE IF uidIndex = "nil"
                         THEN <<"UID index not ready">>
                         ELSE Nil
              IN  IF why = Nil
                  THEN cpc' = "lookup" /\ rdUid' = extractUID(cg).uid /\ posts' = <<>>
                  ELSE /\ cpc' = "recv"
                       /\ exit' = "running"
                       /\ herr' = why
                       /\ OneErrorAlert(posts', why)
        /\ (cpc = "lookup" /\ cpc' # "lookup" /\ exit' = "running") =>
              /\ cpc' = "recv"
              /\ got' \in rdView
              /\ ~got'.ok =>
                    /\ herr' = <<"Pod with UID ", rdUid, " is not known">>
                    /\ OneErrorAlert(posts', herr')
      ]_vars

\* C6's case: the signal's pod u1 was removed from the index before the read,
\* and the error alert was posted.
C6_RemovedPodAlerted ==
    /\ exit = "running"
    /\ plistRV = 1
    /\ U1 \in DOMAIN SnapshotMap
    /\ cpc = "recv"
    /\ herr = <<"Pod with UID ", U1, " is not known">>
    /\ OneErrorAlert(posts, herr)
    /\ uidIndex = "index"
    /\ U1 \notin DOMAIN index
    /\ LastAbout(podLog, U1, {"DELETED"}) = 2

\* C7: when handleOOM found a row whose cgroup names a pod of the index,
\* exactly one alert was posted, and its text holds the pod's namespace and
\* name, the node and the process id.
C7_OneAlertForKnownPod ==
    (cpc = "recv" /\ got.ok) =>
        /\ Len(posts) = 1
        /\ posts[1].text = OOMText(got.v, oomEvent, row.nspid)
        /\ posts[1].text[2] = got.v.Namespace
        /\ posts[1].text[4] = got.v.Name
        /\ posts[1].text[6] = oomEvent.Node
        /\ posts[1].text[8] = oomEvent.PID

\* C8: at most one webhook POST is made for one received OOMEvent.
C8_AtMostOnePost == Len(posts) <= 1

\* C9: no map read of handleOOM overlaps a map write of internalPodIndexer on
\* the same map.
C9_NoReadDuringWrite == ~(cpc = "lookup" /\ rdLive /\ ppc = "write")

\* C10: the row handleOOM uses is the one of greatest ts among the records of
\* the OOMEvent's node and PID whose ts is at or before the query's
\* current_timestamp.
C10_LatestRecordAtOrBeforeNow ==
    (queried # -1 /\ herr # <<"sql: database error">>) =>
        LET atOrBefore == {r \in Records :
                             /\ r.hostname = oomEvent.Node
                             /\ r.pid = oomEvent.PID
                             /\ r.ts <= queried}
        IN  \A r \in atOrBefore :
                (\A q \in atOrBefore : q.ts <= r.ts) =>
                    row = [cgroup |-> r.cgroup, nspid |-> r.nspid]

\* The records of the table for the OOMEvent received.
RecordsOfSignal == {r \in Records : r.hostname = oomEvent.Node /\ r.pid = oomEvent.PID}

\* C11: a record whose ts is after the query's current_timestamp is never the
\* row handleOOM uses; when every record of the node and PID is after it the
\* query finds no row, which handleOOM reports as "No ps record"; and when
\* some record is before it the row used is one of those at or before it.
C11_FutureRecordNeverUsed ==
    (queried # -1 /\ herr # <<"sql: database error">>) =>
        /\ \A r \in RecordsOfSignal :
              r.ts > queried => row # [cgroup |-> r.cgroup, nspid |-> r.nspid]
        /\ (\A r \in RecordsOfSignal : r.ts > queried) =>
              /\ row = NoRow
              /\ herr = <<"No ps record for node ", oomEvent.Node, " and PID ", oomEvent.PID>>
        /\ (\E r \in RecordsOfSignal : r.ts < queried) =>
              \E r \in RecordsOfSignal :
                  r.ts <= queried /\ row = [cgroup |-> r.cgroup, nspid |-> r.nspid]

\* C11's case: the query ran at current_timestamp 0, before every record of
\* (node-3, 4821), and handleOOM reported that there is no record.
C11_AllRecordsInFuture ==
    /\ cpc = "recv"
    /\ queried = 0
    /\ oomEvent.PID = Pid4821
    /\ RecordsOfSignal # {}
    /\ \A r \in RecordsOfSignal : r.ts > queried
    /\ herr = <<"No ps record for node ", "node-3", " and PID ", Pid4821>>
    /\ OneErrorAlert(posts, herr)

\* C12: eventCh never holds more than its capacity; while internalEventWatcher
\* is at a send and the channel is full it does nothing (it takes no further
\* notification) until main's loop receives; and the channel changes only by
\* a send that appends the OOMEvent at its end or by main's receive of its
\* head, so every OOMEvent sent is received once, none is dropped or
\* overwritten.
C12_ChannelBlocksAndKeepsAll ==
    [][ /\ Len(eventCh) <= ChanCap
        /\ Len(eventCh') <= ChanCap
        /\ (epc = "send" /\ Len(eventCh) = ChanCap) =>
              /\ UNCHANGED <<epc, esend, epos, erv, egone, eerr, sent>>
              /\ eventCh' = eventCh \/ eventCh' = Tail(eventCh)
        /\ eventCh' # eventCh =>
              \/ /\ epc = "send"
                 /\ eventCh' = Append(eventCh, Head(esend))
                 /\ esend' = Tail(esend)
                 /\ UNCHANGED <<cpc, oomEvent>>
              \/ /\ cpc = "recv"
                 /\ cpc' = "handle"
                 /\ oomEvent' = Head(eventCh)
                 /\ eventCh' = Tail(eventCh)
                 /\ UNCHANGED <<epc, esend>>
      ]_vars

\* C12's case: the channel is full, internalEventWatcher is blocked at a send
\* and a further notification of the watch is waiting.
C12_BlockedOnFullChannel ==
    /\ exit = "running"
    /\ epc = "send"
    /\ esend # <<>>
    /\ Len(eventCh) = ChanCap
    /\ epos < Len(evLog)

\* The number of OOMEvent values sent for the first i qualifying events.
RECURSIVE SentUpTo(_)
SentUpTo(i) == IF i = 0 THEN 0 ELSE Len(sent[i].evs) + SentUpTo(i - 1)

\* The number of OOMEvent values sent, and of those main's loop has received.
SentCount == SentUpTo(Len(sent))
ReceivedCount == SentCount - Len(eventCh)

\* The k-th OOMEvent sent was received and its loop body ran to a POST.
Notified(k) ==
    \/ ReceivedCount > k
    \/ ReceivedCount = k /\ cpc = "recv" /\ posts # <<>>

\* C13: unless a watcher ends the process with log.Fatalln, every OOMEvent
\* sent on eventCh is eventually received and leads to at least one POST.
C13_EverySignalNotified ==
    \A k \in 1..(2 * MaxEvLogSmall) :
        (SentCount >= k) ~> (Notified(k) \/ exit \in {"podIndexer", "eventWatcher"})

\* The OOMEvent values sent for the first i qualifying events, in the order
\* of the sends.
RECURSIVE SentSeq(_)
SentSeq(i) == IF i = 0 THEN <<>> ELSE SentSeq(i - 1) \o sent[i].evs

\* C14: each watcher takes the notifications of its watch one by one in the
\* order of the log; the qualifying events are processed in increasing
\* position and eventCh holds, in the order of the sends, exactly the
\* OOMEvent values sent and not yet received; main's loop receives them in
\* that order and has made a POST for the one received before it receives
\* the next.
C14_OrderPreserved ==
    [][ /\ (epc = "recv" /\ epc' \in {"recv", "send"} /\ epos' # epos) => epos' = epos + 1
        /\ (ppc = "recv" /\ ppc' \in {"recv", "write"} /\ ppos' # ppos) => ppos' = ppos + 1
        /\ \A i \in 1..(Len(sent) - 1) : sent[i].pos < sent[i + 1].pos
        /\ eventCh = SubSeq(SentSeq(Len(sent)), ReceivedCount + 1, SentCount)
        /\ (cpc = "recv" /\ cpc' = "handle") =>
              /\ oomEvent' = SentSeq(Len(sent))[ReceivedCount + 1]
              /\ ReceivedCount >= 1 => posts # <<>>
      ]_vars

\* C14's case: two qualifying events with different messages were processed
\* in their order, and main's loop has received every OOMEvent sent for them
\* and made its POST for the last.
C14_SecondAfterFirst ==
    /\ Len(sent) = 2
    /\ sent[1].pos < sent[2].pos
    /\ sent[1].evs # sent[2].evs
    /\ epc # "send"
    /\ ReceivedCount = SentCount
    /\ cpc = "recv"
    /\ oomEvent = SentSeq(2)[SentCount]
    /\ posts # <<>>

\* Map m2 is m1 with the entry of uid set to v and every other entry as it was.
IsUpsert(m1, m2, uid, v) ==
    /\ DOMAIN m2 = DOMAIN m1 \cup {uid}
    /\ m2[uid] = v
    /\ \A u \in DOMAIN m1 \ {uid} : m2[u] = m1[u]

\* Map m2 is m1 without the entry of uid and every other entry as it was.
IsDelete(m1, m2, uid) ==
    /\ DOMAIN m2 = DOMAIN m1 \ {uid}
    /\ \A u \in DOMAIN m2 : m2[u] = m1[u]

\* C15: the index changes only by the upsert of the pod of an ADDED
\* notification, by the delete of the pod of a DELETED one, or when a List
\* starts a new map and fills it from the snapshot; a notification of another
\* type (MODIFIED, BOOKMARK) or whose object is not a Pod starts no map write,
\* leaves the index as it is and the process running; an ADDED or DELETED
\* notification of a Pod starts the write for that very notification.
C15_IndexChangesOnlyByAddRemoveResync ==
    [][ /\ index' # index =>
              \/ /\ ppc = "write"
                 /\ pnote.Type = "ADDED"
                 /\ IsUpsert(index, index', pnote.Object.UID,
                             [Name |-> pnote.Object.Name, Namespace |-> pnote.Object.Namespace])
              \/ /\ ppc = "write"
                 /\ pnote.Type = "DELETED"
                 /\ IsDelete(index, index', pnote.Object.UID)
              \/ /\ ppc = "list"
                 /\ index' = EmptyMap
              \/ /\ ppc = "fill"
                 /\ \E p \in SnapshotPods :
                       IsUpsert(index, index', p.UID, [Name |-> p.Name, Namespace |-> p.Namespace])
        /\ (ppc = "recv" /\ ppc' \in {"recv", "write"} /\ ppos' = ppos + 1) =>
              LET n == podLog[ppos + 1]
              IN  IF n.Object.Kind = "Pod" /\ n.Type \in {"ADDED", "DELETED"}
                  THEN ppc' = "write" /\ pnote' = n
                  ELSE /\ ppc' = "recv"
                       /\ index' = index
                       /\ pnote' = pnote
                       /\ exit' = "running"
      ]_vars

\* C15's case: with u1 (web-7) in the index, the watch delivered a
\* MODIFIED notification that renames u1 and then an ADDED one whose object is
\* no Pod; the index is as it was.
C15_ModifiedAndNonPodIgnored ==
    /\ exit = "running"
    /\ ppc = "recv"
    /\ plistRV = 1
    /\ ppos = 3
    /\ podLog[2] = [Type |-> "MODIFIED", Object |-> Pod(U1, "web-9", "prod")]
    /\ podLog[3].Object.Kind # "Pod"
    /\ index = (U1 :> [Name |-> "web-7", Namespace |-> "prod"])

\* C16: the resourceVersion of a watcher never decreases; it changes only to
\* the resourceVersion of the notification taken from the watch (every
\* notification whose object passes the type assertion sets it) or to that
\* of a new list; a watch is opened from the current resourceVersion, which
\* the end of a watch leaves as it is, and which is never below the
\* snapshot's.
C16_CursorNeverRewound ==
    [][ /\ prv' >= prv
        /\ erv' >= erv
        /\ (ppc = "recv" /\ ppc' \in {"recv", "write"} /\ ppos' = ppos + 1) =>
              prv' = IF podLog[ppos + 1].Object.Kind = "Pod" THEN ppos + 1 ELSE prv
        /\ (epc = "recv" /\ epc' \in {"recv", "send"} /\ epos' = epos + 1) =>
              erv' = IF evLog[epos + 1].Object.Kind = "Event" THEN epos + 1 ELSE erv
        /\ prv' # prv =>
              \/ ppc = "recv" /\ ppos' = ppos + 1
              \/ ppc = "fill" /\ ppc' = "open" /\ prv' = plistRV
        /\ erv' # erv =>
              \/ epc = "recv" /\ epos' = epos + 1
              \/ epc = "list" /\ epc' = "open" /\ erv' = Len(evLog)
        /\ (ppc = "open" /\ ppc' = "recv") => ppos' = prv /\ prv' = prv
        /\ (epc = "open" /\ epc' = "recv") => epos' = erv /\ erv' = erv
        /\ (ppc = "recv" /\ ppc' = "open") => prv' = prv
        /\ (epc = "recv" /\ epc' = "open") => erv' = erv
        /\ ppc \in {"open", "recv", "write"} => prv >= plistRV
        /\ efirstRV # -1 => erv >= efirstRV
      ]_vars

\* C16's case: each watcher has taken a notification after its snapshot, its
\* watch has ended, and it is about to open the next watch from the
\* resourceVersion of that notification.
C16_ReopensFromLastNotification ==
    /\ exit = "running"
    /\ ppc = "open"
    /\ perr = NoErr
    /\ prv > plistRV
    /\ prv = Len(podLog)
    /\ epc = "open"
    /\ eerr = NoErr
    /\ efirstRV = 0
    /\ Len(sent) = 1
    /\ erv = sent[1].pos

\* The notification the event watch delivers next is no Event of type ADDED
\* with reason OOMKilling about a Node.
FailsAFilter(n) ==
    \/ n.Object.Kind # "Event"
    \/ n.Type # "ADDED"
    \/ n.Object.Reason # "OOMKilling"
    \/ n.Object.InvolvedObject.Kind # "Node"

\* C17: an OOMEvent is sent only for a notification of type ADDED with reason
\* OOMKilling whose involved object is a Node. Taking a notification that
\* fails one of the three tests sends nothing and starts no send, while the
\* resourceVersion still moves to that of the event; eventCh grows only by
\* the next OOMEvent of the qualifying event being sent; and an OOMEvent with
\* a nil Error carries the name of the involved object as its Node.
C17_SignalOnlyForAddedOOMKillingNode ==
    [][ /\ (epc = "recv" /\ epos' = epos + 1 /\ FailsAFilter(evLog[epos + 1])) =>
              /\ eventCh' = eventCh
              /\ sent' = sent
              /\ esend' = esend
              /\ epc' = "recv"
              /\ evLog[epos + 1].Object.Kind = "Event" => erv' = epos + 1
        /\ Len(eventCh') > Len(eventCh) =>
              /\ epc = "send"
              /\ eventCh' = Append(eventCh, Head(esend))
              /\ sent'[Len(sent')].evs = Append(sent[Len(sent)].evs, Head(esend))
        /\ \A i \in 1..Len(sent') :
              LET n == evLog'[sent'[i].pos]
              IN  /\ ~FailsAFilter(n)
                  /\ \A k \in 1..Len(sent'[i].evs) :
                        sent'[i].evs[k].Error = Nil =>
                            sent'[i].evs[k].Node = n.Object.InvolvedObject.Name
        /\ \A k \in 1..Len(eventCh') :
              \E i \in 1..Len(sent') : \E m \in 1..Len(sent'[i].evs) :
                  eventCh'[k] = sent'[i].evs[m]
      ]_vars

\* C17's case: the watch has delivered an event about a Pod, a MODIFIED
\* notification and an OOMKilling event about a Node, in this order; only the
\* last one was sent, with node-3 as its Node.
C17_OnlyTheNodeEventSent ==
    /\ efirstRV = 0
    /\ Len(evLog) = 3
    /\ evLog[1].Object.Kind = "Event" /\ evLog[1].Object.InvolvedObject.Kind = "Pod"
    /\ evLog[2].Type = "MODIFIED"
    /\ evLog[3] = [Type |-> "ADDED", Object |-> Event("OOMKilling", "Node", "node-3", MsgKill)]
    /\ epos = 3
    /\ erv = 3
    /\ epc = "recv"
    /\ Len(sent) = 1
    /\ sent[1] = [pos |-> 3, evs |-> <<OOMEvent("node-3", <<"4","8","2","1">>, Nil)>>]

\* No event is taken up for sending twice, and none that the first snapshot
\* contains: the positions of the events sent are strictly increasing and
\* lie after the first list's resourceVersion.
SentPositionsIncrease ==
    /\ \A i \in 1..Len(sent) : sent[i].pos > efirstRV
    /\ \A i \in 1..Len(sent) : \A j \in 1..Len(sent) :
          i < j => sent[i].pos < sent[j].pos

\* C18: no qualifying event yields more than one OOMEvent: none is taken up
\* again after a timeout, a reconnect or a resync, none contained in a
\* snapshot is sent, and the event taken up puts at most one OOMEvent on
\* eventCh.
C18_AtMostOneSignalPerEvent ==
    /\ SentPositionsIncrease
    /\ \A i \in 1..Len(sent) : Len(sent[i].evs) <= 1

\* The map *uidIndex, when uidIndex is not nil.
Published == IF uidIndex = "index" THEN index ELSE prevIndex

\* C19: uidIndex never points to the map being filled from list.Items. It
\* is set only once the map holds every item of the new snapshot; until then
\* it keeps pointing to the previous map, which the loop over list.Items
\* does not touch, and the map read of handleOOM reads that map; while
\* uidIndex is nil, handleOOM does no map read and returns "UID index not
\* ready" once it has a record and a UID.
C19_NoPartialSnapshotVisible ==
    [][ /\ ppc = "fill" => uidIndex # "index"
        /\ ppc' = "fill" => uidIndex' # "index"
        /\ uidIndex' # uidIndex =>
              \/ /\ ppc = "fill" /\ ppc' = "open"
                 /\ uidIndex' = "index"
                 /\ plist = <<>>
                 /\ index' = SnapshotMap
              \/ /\ ppc = "list" /\ ppc' = "fill"
                 /\ uidIndex = "index" /\ uidIndex' = "prev"
                 /\ prevIndex' = index
        /\ (uidIndex # "nil" /\ ppc' = "fill") => Published' = Published
        /\ (cpc = "handle" /\ cpc' = "lookup") =>
              /\ uidIndex # "nil"
              /\ rdView' = {MapGet(Published, rdUid')}
              /\ ppc = "fill" => rdView' = {MapGet(prevIndex, rdUid')}
        /\ (/\ cpc = "handle" /\ cpc' = "recv" /\ uidIndex = "nil"
            /\ oomEvent.Error = Nil /\ row' # NoRow
            /\ extractUID(row'.cgroup).err = Nil) =>
              herr' = <<"UID index not ready">>
      ]_vars

\* C19's case: a resync has listed pod u1, which the previous snapshot did
\* not hold, and has not yet filled it into the new map; uidIndex still
\* points to the previous map, and handleOOM, looking u1 up, is reading that
\* previous map.
C19_LookupWhileResyncFills ==
    /\ exit = "running"
    /\ ppc = "fill"
    /\ uidIndex = "prev"
    /\ Len(plist) = 1
    /\ plist[1].UID = U1
    /\ index = EmptyMap
    /\ prevIndex = EmptyMap
    /\ cpc = "lookup"
    /\ rdUid = U1
    /\ rdView = {MapGet(prevIndex, U1)}

\* C20: the timeoutSeconds of every Watch call, of podIndexer and of
\* eventWatcher, is at least minWatchTimeout and below twice minWatchTimeout.
C20_TimeoutInRange ==
    /\ ptimeout # 0 =>
          minWatchTimeout <= ptimeout /\ ptimeout < 2 * minWatchTimeout
    /\ etimeout # 0 =>
          minWatchTimeout <= etimeout /\ etimeout < 2 * minWatchTimeout

====
